---------------------------- MODULE Spec2Model ----------------------------
(***************************************************************************)
(* Orb Cascade (src/main.js): the session state machine, the driving loop, *)
(* the launch requests, the Orb's per-tick event detection and the Board   *)
(* generator, as a state machine.                                          *)
(*                                                                         *)
(* Representation of the numbers of the source:                            *)
(*   - times (dt, flowTimeLeft, warpCooldown, CONFIG.flow.*Duration...)     *)
(*     are integers in milliseconds;                                       *)
(*   - energy is an integer in tenths of a point (100 points = 1000);      *)
(*   - multipliers (CONFIG.flow.scoreMultiplier, energyMultiplier) are     *)
(*     integers in tenths (1.5 = 15, the literal 1.0 = 10);                *)
(*   - probabilities and Math.random() values are integers in percent;     *)
(*   - angles are integers in degrees;                                     *)
(*   - a 32-bit word of the generator is the pair <<high 16 bits, low 16   *)
(*     bits>>;                                                             *)
(*   - positions are integer points of the virtual 720 x 1280 plane.       *)
(* The floating-point integration of Orb.update (gravity, speed clamp,     *)
(* move, walls, zones, panels: lines 79-128) is not computable here: its   *)
(* result, the orb's position before the warp step, is an input of the     *)
(* tick, drawn from Positions.  Everything after it (warps, gates,         *)
(* portals, out of bounds, the hooks) is computed as the code computes it. *)
(***************************************************************************)
EXTENDS Integers, Sequences, FiniteSets, TLC

VARIABLES
    gameState,   \* the session object (lines 360-374)
    storage,     \* localStorage['oc_highscore']
    rafPending,  \* number of tick callbacks requested and not yet run
    restarts,    \* number of OC.restart calls so far (history)
    sinceWarp,   \* simulated time of the ticks since the current orb's last
                 \* teleport, counted up to CONFIG.warp.cooldown; -1 if the
                 \* current orb was never teleported (history)
    ev           \* what the last operation was and did (history)

vars == <<gameState, storage, rafPending, restarts, sinceWarp, ev>>

-----------------------------------------------------------------------------
(* Program constants *)

VIRTUAL_W == 720
VIRTUAL_H == 1280

\* The portal rectangle's size and the launch point's height (lines 336, 473).
PortalW == 160
PortalH == 70
LaunchY == 1220

-----------------------------------------------------------------------------
(* Bounds of the model *)

\* OC.restart calls accepted after the initial startNewGame.
MaxRestarts == 1
\* OC.spawn is accepted while gameState.orbIndex is below this.
MaxOrbIndex == 2
\* A direct call of Board.prototype.onGatePassed is accepted while the score
\* is below this.
MaxGateScore == 100
\* A direct call of Board.prototype.onPortalEntered or onMiss is accepted
\* while fewer than this many shots of the round have ended.
MaxShotsEnded == 2
\* In HistorySpec the same calls are accepted while fewer than this many
\* shots of the round have ended.
MaxHistoryShots == 11

-----------------------------------------------------------------------------
(* Utility: clamp, Math.round, 32-bit words *)

Min(a, b) == IF a < b THEN a ELSE b
Max(a, b) == IF a > b THEN a ELSE b

\* clamp without the upper limit.
clampNoUpper(v, a, b) == Max(a, v)

\* clamp = (v, a, b) => Math.max(a, Math.min(b, v))
clamp(v, a, b) == Max(a, Min(b, v))

\* Math.round(num / den) for den > 0: the nearest integer, ties upward.
MathRound(num, den) == (2 * num + den) \div (2 * den)

RECURSIVE XorBits(_, _, _)
XorBits(a, b, n) ==
    IF n = 0 THEN 0
    ELSE (((a % 2) + (b % 2)) % 2) + 2 * XorBits(a \div 2, b \div 2, n - 1)

RECURSIVE Pow2(_)
Pow2(k) == IF k = 0 THEN 1 ELSE 2 * Pow2(k - 1)

\* x ^ y on 32-bit words.
Xor32(x, y) == <<XorBits(x[1], y[1], 16), XorBits(x[2], y[2], 16)>>

\* (x << k) >>> 0 for 0 < k < 16.
Shl32(x, k) ==
    <<((x[1] * Pow2(k)) % 65536) + (x[2] \div Pow2(16 - k)),
      (x[2] * Pow2(k)) % 65536>>

\* x >>> k for 16 <= k < 32.
Shr32(x, k) == <<0, x[1] \div Pow2(k - 16)>>

\* One call of the function rand(seed) returns: the generator's next word.
\* The value returned to the caller is that word divided by 0xFFFFFFFF.
randStep(x) ==
    LET a == Xor32(x, Shl32(x, 13))
        b == Xor32(a, Shr32(a, 17))
    IN  Xor32(b, Shl32(b, 5))

\* Math.floor((w / 0xFFFFFFFF) * n) for a word w and 1 <= n < 16:
\* w*n = q*2^32 + rem, and w*n >= (q+1)*(2^32-1) iff rem + q + 1 >= 2^32.
FloorMul(w, n) ==
    LET lo == w[2] * n
        hi == w[1] * n + (lo \div 65536)
        q  == hi \div 65536
    IN  IF (hi % 65536) = 65535 /\ (lo % 65536) + q + 1 >= 65536
        THEN q + 1 ELSE q

-----------------------------------------------------------------------------
(* The configuration (config.json, loaded at line 28; its values are inputs) *)

Preset0 ==
    [panels  |-> << <<100, 300, 300, 340>> >>,
     zones   |-> << [x |-> 0, y |-> 500, w |-> 720, h |-> 60, type |-> "accel"] >>,
     warps   |-> << <<150, 400, 30, 570, 400>> >>,
     gates   |-> << <<200, 600, 320, 600>> >>,
     portals |-> 0]      \* no "portals" key: the code's default applies

Preset1 ==
    [panels  |-> << <<400, 300, 600, 260>>, <<100, 900, 300, 900>> >>,
     zones   |-> << >>,
     warps   |-> << >>,
     gates   |-> << <<200, 600, 320, 600>>, <<400, 800, 520, 800>> >>,
     portals |-> 2]

CONFIG ==
    [orbRadius    |-> 12,
     shotsPerGame |-> 2,
     scores |-> [portals |-> [blue |-> 105, purple |-> 250, gold |-> 500],
                 gate    |-> 50,
                 energy  |-> [gold |-> 60, default |-> 30, onMiss |-> 20,
                              gate |-> 60]],
     bonus  |-> [baseProb |-> 10, cap |-> 20],
     flow   |-> [baseDuration |-> 100, scoreMultiplier |-> 15,
                 energyMultiplier |-> 15, extendProb |-> 30,
                 extendSeconds |-> 50, extendCap |-> 40],
     warp   |-> [cooldown |-> 100],
     fire   |-> [min |-> 400, max |-> 1200],
     board  |-> [presets |-> <<Preset0, Preset1>>]]

\* Date.now() & 0xffffffff, or the seedOverride of OC.restart, as unsigned
\* 32-bit words: 5 (preset 0: portals blue, gold, purple) and 12345 (preset 1:
\* portals purple, blue).
Seeds == {<<0, 5>>, <<0, 12345>>}

\* localStorage['oc_highscore'] at startup, as parseInt reads it.
StoredHighScores == {0, 120}

\* The arguments of OC.restart(s): the seeds above and 0x5E6CFCE7, the seed
\* whose first generated word is 0xFFFFFFFF (rng() returns exactly 1).
RestartSeeds == Seeds \cup {<<24172, 64743>>}

-----------------------------------------------------------------------------
(* Board: the constructor and generate() (lines 289-343) *)

Kinds == <<"blue", "purple", "gold">>

\* for(const seg of preset.panels): four jitter draws per panel, in argument
\* order.  A panel keeps its preset segment and the four words drawn; the
\* jittered coordinate is seg[k] + (word/0xFFFFFFFF - 0.5)*60.
RECURSIVE GenPanels(_, _, _)
GenPanels(segs, i, x) ==
    IF i > Len(segs) THEN [panels |-> << >>, rng |-> x]
    ELSE LET w1 == randStep(x)
             w2 == randStep(w1)
             w3 == randStep(w2)
             w4 == randStep(w3)
             rest == GenPanels(segs, i + 1, w4)
         IN  [panels |-> <<[seg |-> segs[i], jitter |-> <<w1, w2, w3, w4>>]>>
                            \o rest.panels,
              rng |-> rest.rng]

\* warps: pairs; ids 1, 2, 3, ... ; the two warps of a pair are partners.
GenWarps(ws) ==
    [k \in 1..(2 * Len(ws)) |->
        LET w == ws[(k + 1) \div 2]
        IN  IF k % 2 = 1
            THEN [x |-> w[1], y |-> w[2], r |-> w[3], id |-> k, partner |-> k + 1]
            ELSE [x |-> w[4], y |-> w[5], r |-> w[3], id |-> k, partner |-> k - 1]]

\* gates: ids 1, 2, 3, ...
GenGates(gs) ==
    [k \in 1..Len(gs) |->
        [a |-> [x |-> gs[k][1], y |-> gs[k][2]],
         b |-> [x |-> gs[k][3], y |-> gs[k][4]],
         id |-> k]]

\* The portals placed 110 below the bottom edge instead of above it.
RECURSIVE GenPortalsBelow(_, _, _)
GenPortalsBelow(count, i, x) ==
    IF i >= count THEN [portals |-> << >>, rng |-> x]
    ELSE LET w == randStep(x)
             k == FloorMul(w, Len(Kinds))
             gapNum == VIRTUAL_W - count * PortalW
             rest == GenPortalsBelow(count, i + 1, w)
         IN  [portals |->
                <<[xNum |-> gapNum + i * (PortalW * (count + 1) + gapNum),
                   xDen |-> count + 1,
                   y |-> VIRTUAL_H + 110, w |-> PortalW, h |-> PortalH,
                   kind |-> IF k < Len(Kinds) THEN Kinds[k + 1] ELSE "undefined"]>>
                \o rest.portals,
              rng |-> rest.rng]

\* portals: x = gap + i*(w+gap) with gap = (VIRTUAL_W - count*w)/(count+1) is
\* kept as the fraction xNum/xDen, xDen = count+1.  One draw per portal.
RECURSIVE GenPortals(_, _, _)
GenPortals(count, i, x) ==
    IF i >= count THEN [portals |-> << >>, rng |-> x]
    ELSE LET w == randStep(x)
             k == FloorMul(w, Len(Kinds))
             gapNum == VIRTUAL_W - count * PortalW
             rest == GenPortals(count, i + 1, w)
         IN  [portals |->
                <<[xNum |-> gapNum + i * (PortalW * (count + 1) + gapNum),
                   xDen |-> count + 1,
                   y |-> VIRTUAL_H - 110, w |-> PortalW, h |-> PortalH,
                   kind |-> IF k < Len(Kinds) THEN Kinds[k + 1] ELSE "undefined"]>>
                \o rest.portals,
              rng |-> rest.rng]

\* new Board(seed).  threw: presets[pidx] is undefined (pidx = presets.length)
\* and "preset.panels" raises a TypeError inside the constructor.
Board(seed) ==
    LET presets == CONFIG.board.presets
        w0   == randStep(seed)
        pidx == FloorMul(w0, Len(presets))
    IN  IF pidx >= Len(presets)
        THEN [threw |-> TRUE, seed |-> seed, pidx |-> pidx, panels |-> << >>,
              zones |-> << >>, warps |-> << >>, gates |-> << >>, portals |-> << >>]
        ELSE LET preset == presets[pidx + 1]
                 ps == GenPanels(preset.panels, 1, w0)
                 count == IF preset.portals = 0 THEN 3 ELSE preset.portals
                 po == GenPortals(count, 0, ps.rng)
             IN  [threw |-> FALSE, seed |-> seed, pidx |-> pidx,
                  panels |-> ps.panels,
                  zones |-> preset.zones,
                  warps |-> GenWarps(preset.warps),
                  gates |-> GenGates(preset.gates),
                  portals |-> po.portals]

\* The Board objects, by seed: a board is not changed after its construction,
\* and gameState.board refers to one by its seed.
BoardTable == [seed \in RestartSeeds |-> Board(seed)]

\* gameState.board = null (before the first newBoard)
NoBoard == << >>

\* The board gameState.board refers to.
BoardOf(gs) == BoardTable[gs.board]

-----------------------------------------------------------------------------
(* Geometry predicates of the obstacle classes *)

Abs(n) == IF n < 0 THEN -n ELSE n

\* Warp.contains (line 239)
WarpContains(w, p) ==
    (p.x - w.x) * (p.x - w.x) + (p.y - w.y) * (p.y - w.y) <= w.r * w.r

\* Gate.checkPass (lines 247-261).  With t = dot/l2 and c = a + v*t the
\* distance |o - c| is |cross|/sqrt(l2), so dist <= radius+2 iff
\* cross^2 <= (radius+2)^2 * l2.  The third conjunct only keeps the squares
\* small: sqrt(l2) <= |vx|+|vy|.
GateCheckPass(g, orb) ==
    LET vx == g.b.x - g.a.x
        vy == g.b.y - g.a.y
        wx == orb.pos.x - g.a.x
        wy == orb.pos.y - g.a.y
        l2 == vx * vx + vy * vy
        dot == vx * wx + vy * wy
        cross == vx * wy - vy * wx
        R == orb.radius + 2
    IN  /\ l2 # 0
        /\ dot >= 0 /\ dot <= l2
        /\ Abs(cross) <= R * (Abs(vx) + Abs(vy))
        /\ cross * cross <= R * R * l2

\* Portal.contains (line 278)
PortalContains(p, pos) ==
    /\ pos.x * p.xDen >= p.xNum
    /\ pos.x * p.xDen <= p.xNum + p.w * p.xDen
    /\ pos.y >= p.y
    /\ pos.y <= p.y + p.h

-----------------------------------------------------------------------------
(* Orb (lines 68-166) *)

\* gameState.currentOrb = null
NoOrb == [id |-> 0]

\* new Orb(x, y, vx, vy, id).  vel keeps the launch velocity in polar form
\* (vx = cos(angle)*power, vy = sin(angle)*power); how the integration changes
\* it afterwards is part of what the tick's position input stands for.
Orb(x, y, angleDeg, power, id) ==
    [pos |-> [x |-> x, y |-> y],
     vel |-> [angleDeg |-> angleDeg, power |-> power],
     radius |-> CONFIG.orbRadius,
     gatePassed |-> {},
     warpCooldown |-> 0,
     alive |-> TRUE,
     id |-> id]

\* The running state of one Orb.update call: the session (whose currentOrb
\* is the orb being updated), whether a hook raised, and which hook was
\* called first.
UpdateState(gs) ==
    [gs |-> gs, threw |-> FALSE, hook |-> "none", gate |-> 0, kind |-> "none"]

\* The hooks the Board constructor installs on every board (lines 300-302):
\* own properties, which shadow the Board.prototype handlers of lines 428-466.
\*     this.onGatePassed    = (g)   => { gameState.onGatePassed(g); };
\*     this.onPortalEntered = (p)   => { gameState.onPortal(p); };
\*     this.onMiss          = (orb) => { gameState.onMiss(orb); };
\* gameState (lines 360-374) has no property onGatePassed, onPortal or onMiss:
\* each call raises "TypeError: gameState.onX is not a function".
BoardOnGatePassed(s, g) ==
    [s EXCEPT !.threw = TRUE, !.hook = "gate", !.gate = g.id]

BoardOnPortalEntered(s, p) ==
    [s EXCEPT !.threw = TRUE, !.hook = "portal", !.kind = p.kind]

BoardOnMiss(s) ==
    [s EXCEPT !.threw = TRUE, !.hook = "miss"]

\* The warp loop without the cooldown test.
RECURSIVE WarpLoopNoCooldown(_, _, _)
WarpLoopNoCooldown(orb, warps, k) ==
    IF k > Len(warps) THEN orb
    ELSE IF WarpContains(warps[k], orb.pos)
         THEN LET other == warps[warps[k].partner]
              IN  [orb EXCEPT !.pos = [x |-> other.x, y |-> other.y],
                              !.warpCooldown = CONFIG.warp.cooldown]
         ELSE WarpLoopNoCooldown(orb, warps, k + 1)

\* lines 130-141: the cooldown runs down, then the first warp (registration
\* order) that contains the orb teleports it to its partner.
RECURSIVE WarpLoop(_, _, _)
WarpLoop(orb, warps, k) ==
    IF k > Len(warps) THEN orb
    ELSE IF WarpContains(warps[k], orb.pos) /\ orb.warpCooldown <= 0
         THEN LET other == warps[warps[k].partner]
              IN  [orb EXCEPT !.pos = [x |-> other.x, y |-> other.y],
                              !.warpCooldown = CONFIG.warp.cooldown]
         ELSE WarpLoop(orb, warps, k + 1)

WarpStep(orb, dt, warps) ==
    LET o1 == IF orb.warpCooldown > 0
              THEN [orb EXCEPT !.warpCooldown = orb.warpCooldown - dt]
              ELSE orb
    IN  WarpLoop(o1, warps, 1)

\* Whether the warp step of an update teleports the orb that the integration
\* left at pos.
Teleported(orb, dt, pos, warps) ==
    WarpStep([orb EXCEPT !.pos = pos], dt, warps).pos # pos

\* The gate visit without the gatePassed.has(g.id) test.
GateVisitNoHasTest(s, g) ==
    IF GateCheckPass(g, s.gs.currentOrb)
    THEN BoardOnGatePassed(
             [s EXCEPT !.gs.currentOrb.gatePassed = @ \cup {g.id}], g)
    ELSE s

\* lines 143-151: gates crossing
GateVisit(s, g) ==
    IF GateCheckPass(g, s.gs.currentOrb) /\ g.id \notin s.gs.currentOrb.gatePassed
    THEN BoardOnGatePassed(
             [s EXCEPT !.gs.currentOrb.gatePassed = @ \cup {g.id}], g)
    ELSE s

RECURSIVE GateLoop(_, _, _)
GateLoop(s, gates, k) ==
    IF s.threw \/ k > Len(gates) THEN s
    ELSE GateLoop(GateVisit(s, gates[k]), gates, k + 1)

\* lines 153-159: portals
PortalVisit(s, p) ==
    IF PortalContains(p, s.gs.currentOrb.pos)
    THEN BoardOnPortalEntered([s EXCEPT !.gs.currentOrb.alive = FALSE], p)
    ELSE s

RECURSIVE PortalLoop(_, _, _)
PortalLoop(s, portals, k) ==
    IF s.threw \/ k > Len(portals) THEN s
    ELSE PortalLoop(PortalVisit(s, portals[k]), portals, k + 1)

\* lines 161-165: out of bounds bottom
MissStep(s) ==
    IF s.threw THEN s
    ELSE IF s.gs.currentOrb.pos.y - s.gs.currentOrb.radius > VIRTUAL_H + 100
         THEN BoardOnMiss([s EXCEPT !.gs.currentOrb.alive = FALSE])
         ELSE s

\* Orb.update(dt, board) on gameState.currentOrb.  pos is the position the
\* integration of lines 79-128 leaves.
OrbUpdate(gs, dt, pos, board) ==
    LET moved  == [gs.currentOrb EXCEPT !.pos = pos]
        warped == WarpStep(moved, dt, board.warps)
        s0     == UpdateState([gs EXCEPT !.currentOrb = warped])
    IN  MissStep(PortalLoop(GateLoop(s0, board.gates, 1), board.portals, 1))

-----------------------------------------------------------------------------
(* Session: scoring helpers, bonus and flow draws (lines 380-425) *)

\* portalScore(kind) = map[kind] || map.blue
portalScore(kind) ==
    LET map == CONFIG.scores.portals
    IN  IF kind \in DOMAIN map /\ map[kind] # 0 THEN map[kind] ELSE map.blue

\* recentShots.slice(-3)
Last3(shots) ==
    [i \in 1..Min(3, Len(shots)) |-> shots[Len(shots) - Min(3, Len(shots)) + i]]

calcBonusProb(gs) ==
    LET last3 == Last3(gs.recentShots)
        p0 == CONFIG.bonus.baseProb
        p1 == IF \E i \in DOMAIN last3 : last3[i].portalKind = "gold"
              THEN p0 + 5 ELSE p0
        zeroCount == Cardinality({i \in DOMAIN last3 : last3[i].missed})
        p2 == IF zeroCount >= 2 THEN p1 + 6 ELSE p1
        p3 == IF gs.combo >= 2 THEN p2 + 3 ELSE p2
    IN  Min(p3, CONFIG.bonus.cap)

enterFlow(gs) ==
    [gs EXCEPT !.isFlow = TRUE, !.flowTimeLeft = CONFIG.flow.baseDuration]

\* doEnergyCheck with r = Math.random().  draw tells what was shown by
\* playBonusAnimation: "none" (no draw), "won" or "lost".
doEnergyCheck(gs, r) ==
    IF gs.energy >= 1000
    THEN LET g1 == [gs EXCEPT !.energy = 0]
             p  == calcBonusProb(g1)
         IN  IF r < p THEN [gs |-> enterFlow(g1), draw |-> "won"]
                      ELSE [gs |-> g1, draw |-> "lost"]
    ELSE [gs |-> gs, draw |-> "none"]

\* doFlowExtendDraw with r = Math.random()
doFlowExtendDraw(gs, r) ==
    IF r < CONFIG.flow.extendProb
    THEN [gs EXCEPT !.flowTimeLeft =
            Min(gs.flowTimeLeft + CONFIG.flow.extendSeconds, CONFIG.flow.extendCap)]
    ELSE gs

\* The push without the shift.
RecordShotNoShift(shots, e) == Append(shots, e)

\* recentShots.push(e); if(recentShots.length > 10) recentShots.shift()
RecordShot(shots, e) ==
    LET pushed == Append(shots, e)
    IN  IF Len(pushed) > 10 THEN Tail(pushed) ELSE pushed

-----------------------------------------------------------------------------
(* Session: the handlers defined on Board.prototype (lines 428-466).  Each  *)
(* returns the session, the stored high score, what the bonus draw showed  *)
(* and whether the handler raised.                                         *)

\* onPortalEntered scoring without the flow multiplier.
onPortalEnteredNoFlowScore(gs, st, p, r, storeFails) ==
    LET base  == portalScore(p.kind)
        mult  == 10
        added == MathRound(base * mult, 10)
        combo == IF gs.currentOrb # NoOrb /\ gs.currentOrb.gatePassed # {}
                 THEN gs.combo + 1 ELSE 1
        energyAdd == IF p.kind = "gold" THEN CONFIG.scores.energy.gold
                                        ELSE CONFIG.scores.energy.default
        emult == IF gs.isFlow THEN CONFIG.flow.energyMultiplier ELSE 10
        g1 == [gs EXCEPT
                 !.score = gs.score + added,
                 !.combo = combo,
                 !.energy = clamp(gs.energy + energyAdd * emult, 0, 1000),
                 !.recentShots =
                     RecordShot(gs.recentShots, [portalKind |-> p.kind, missed |-> FALSE]),
                 !.currentOrb = NoOrb,
                 !.shotsLeft = gs.shotsLeft - 1]
        high == g1.score > g1.highScore
        g2 == IF high THEN [g1 EXCEPT !.highScore = g1.score] ELSE g1
        chk == doEnergyCheck(g2, r)
    IN  IF high /\ storeFails
        THEN [gs |-> g2, storage |-> st, draw |-> "none", threw |-> TRUE]
        ELSE [gs |-> chk.gs, storage |-> IF high THEN g2.highScore ELSE st,
              draw |-> chk.draw, threw |-> FALSE]

\* onPortalEntered reading the orb's gates after currentOrb = null.
onPortalEnteredClearFirst(gs, st, p, r, storeFails) ==
    LET base  == portalScore(p.kind)
        mult  == IF gs.isFlow THEN CONFIG.flow.scoreMultiplier ELSE 10
        added == MathRound(base * mult, 10)
        combo == 1
        energyAdd == IF p.kind = "gold" THEN CONFIG.scores.energy.gold
                                        ELSE CONFIG.scores.energy.default
        emult == IF gs.isFlow THEN CONFIG.flow.energyMultiplier ELSE 10
        g1 == [gs EXCEPT
                 !.score = gs.score + added,
                 !.combo = combo,
                 !.energy = clamp(gs.energy + energyAdd * emult, 0, 1000),
                 !.recentShots =
                     RecordShot(gs.recentShots, [portalKind |-> p.kind, missed |-> FALSE]),
                 !.currentOrb = NoOrb,
                 !.shotsLeft = gs.shotsLeft - 1]
        high == g1.score > g1.highScore
        g2 == IF high THEN [g1 EXCEPT !.highScore = g1.score] ELSE g1
        chk == doEnergyCheck(g2, r)
    IN  IF high /\ storeFails
        THEN [gs |-> g2, storage |-> st, draw |-> "none", threw |-> TRUE]
        ELSE [gs |-> chk.gs, storage |-> IF high THEN g2.highScore ELSE st,
              draw |-> chk.draw, threw |-> FALSE]

\* Board.prototype.onPortalEntered(p).  r = Math.random() of the bonus draw;
\* storeFails: localStorage.setItem raises.
onPortalEntered(gs, st, p, r, storeFails) ==
    LET base  == portalScore(p.kind)
        mult  == IF gs.isFlow THEN CONFIG.flow.scoreMultiplier ELSE 10
        added == MathRound(base * mult, 10)
        combo == IF gs.currentOrb # NoOrb /\ gs.currentOrb.gatePassed # {}
                 THEN gs.combo + 1 ELSE 1
        energyAdd == IF p.kind = "gold" THEN CONFIG.scores.energy.gold
                                        ELSE CONFIG.scores.energy.default
        emult == IF gs.isFlow THEN CONFIG.flow.energyMultiplier ELSE 10
        g1 == [gs EXCEPT
                 !.score = gs.score + added,
                 !.combo = combo,
                 !.energy = clamp(gs.energy + energyAdd * emult, 0, 1000),
                 !.recentShots =
                     RecordShot(gs.recentShots, [portalKind |-> p.kind, missed |-> FALSE]),
                 !.currentOrb = NoOrb,
                 !.shotsLeft = gs.shotsLeft - 1]
        high == g1.score > g1.highScore
        g2 == IF high THEN [g1 EXCEPT !.highScore = g1.score] ELSE g1
        chk == doEnergyCheck(g2, r)
    IN  IF high /\ storeFails
        THEN [gs |-> g2, storage |-> st, draw |-> "none", threw |-> TRUE]
        ELSE [gs |-> chk.gs, storage |-> IF high THEN g2.highScore ELSE st,
              draw |-> chk.draw, threw |-> FALSE]

\* onMiss without the combo reset.
onMissKeepCombo(gs, st, r) ==
    LET g1 == [gs EXCEPT
                 !.energy = clamp(gs.energy + 10 * CONFIG.scores.energy.onMiss, 0, 1000),
                 !.recentShots =
                     RecordShot(gs.recentShots, [portalKind |-> "null", missed |-> TRUE]),
                 !.currentOrb = NoOrb,
                 !.shotsLeft = gs.shotsLeft - 1]
        chk == doEnergyCheck(g1, r)
    IN  [gs |-> chk.gs, storage |-> st, draw |-> chk.draw, threw |-> FALSE]

\* Board.prototype.onMiss(orb)
onMiss(gs, st, r) ==
    LET g1 == [gs EXCEPT
                 !.energy = clamp(gs.energy + 10 * CONFIG.scores.energy.onMiss, 0, 1000),
                 !.recentShots =
                     RecordShot(gs.recentShots, [portalKind |-> "null", missed |-> TRUE]),
                 !.currentOrb = NoOrb,
                 !.combo = 0,
                 !.shotsLeft = gs.shotsLeft - 1]
        chk == doEnergyCheck(g1, r)
    IN  [gs |-> chk.gs, storage |-> st, draw |-> chk.draw, threw |-> FALSE]

\* onGatePassed with the gate score multiplied during flow.
onGatePassedFlowScore(gs, st) ==
    [gs |-> [gs EXCEPT
                !.score = gs.score
                    + MathRound(CONFIG.scores.gate
                                  * (IF gs.isFlow THEN CONFIG.flow.scoreMultiplier
                                                  ELSE 10), 10),
                !.energy = clamp(gs.energy + 10 * CONFIG.scores.energy.gate, 0, 1000)],
     storage |-> st, draw |-> "none", threw |-> FALSE]

\* Board.prototype.onGatePassed(g)
onGatePassed(gs, st) ==
    [gs |-> [gs EXCEPT
                !.score = gs.score + CONFIG.scores.gate,
                !.energy = clamp(gs.energy + 10 * CONFIG.scores.energy.gate, 0, 1000)],
     storage |-> st, draw |-> "none", threw |-> FALSE]

-----------------------------------------------------------------------------
(* Launch requests (lines 517-545) *)

launchBase == [x |-> VIRTUAL_W \div 2, y |-> LaunchY]

\* spawnOrb(angleRad, power), the angle in degrees
spawnOrb(gs, angleDeg, power) ==
    [gs EXCEPT
        !.orbIndex = gs.orbIndex + 1,
        !.currentOrb = Orb(launchBase.x, launchBase.y, angleDeg, power, gs.orbIndex + 1)]

\* doFireAuto without the test for an orb in flight.
doFireAutoNoOrbTest(gs) ==
    IF gs.shotsLeft <= 0 THEN gs
    ELSE spawnOrb(gs, -50, (CONFIG.fire.max + CONFIG.fire.min) \div 2)

doFireAuto(gs) ==
    IF gs.currentOrb # NoOrb \/ gs.shotsLeft <= 0 THEN gs
    ELSE spawnOrb(gs, -50, (CONFIG.fire.max + CONFIG.fire.min) \div 2)

\* doFireFromInput launching at the unclamped angle.
doFireFromInputNoClamp(gs, length, atan2Deg) ==
    IF gs.currentOrb # NoOrb \/ gs.shotsLeft <= 0 THEN gs
    ELSE spawnOrb(gs, atan2Deg + 180,
                  CONFIG.fire.min
                    + (clamp(length - 10, 0, 200)
                         * (CONFIG.fire.max - CONFIG.fire.min)) \div 200)

\* doFireFromInput(dx, dy) with length = Math.hypot(dx, dy) and
\* atan2Deg = Math.atan2(dy, dx) in degrees, in -179..180.
doFireFromInput(gs, length, atan2Deg) ==
    IF gs.currentOrb # NoOrb \/ gs.shotsLeft <= 0 THEN gs
    ELSE LET t200  == clamp(length - 10, 0, 200)      \* t*200
             power == CONFIG.fire.min
                        + (t200 * (CONFIG.fire.max - CONFIG.fire.min)) \div 200
             deg   == atan2Deg + 180
             clampedDeg == clamp(deg, -80, -20)
         IN  spawnOrb(gs, clampedDeg, power)

-----------------------------------------------------------------------------
(* The session object, startNewGame and the driving loop *)

\* const gameState = {...} (lines 360-374); high = parseInt(localStorage...)
InitialGameState(high, seed) ==
    [score |-> 0, shotsLeft |-> CONFIG.shotsPerGame, energy |-> 0, combo |-> 0,
     isFlow |-> FALSE, flowTimeLeft |-> 0, rngSeed |-> seed,
     recentShots |-> << >>, currentOrb |-> NoOrb, orbIndex |-> 0,
     board |-> NoBoard, highScore |-> high]

\* startNewGame(seedOverride), seed being the override or Date.now() & 0xffffffff.
\* newBoard() is gameState.board = new Board(gameState.rngSeed).
\* scheduled: requestAnimationFrame(tick) was reached (newBoard did not raise).
startNewGame(gs, seed) ==
    LET g1 == [gs EXCEPT
                 !.score = 0, !.shotsLeft = CONFIG.shotsPerGame, !.energy = 0,
                 !.combo = 0, !.isFlow = FALSE, !.flowTimeLeft = 0,
                 !.currentOrb = NoOrb, !.orbIndex = 0, !.recentShots = << >>,
                 !.rngSeed = seed]
    IN  IF BoardTable[seed].threw THEN [gs |-> g1, scheduled |-> FALSE]
        ELSE [gs |-> [g1 EXCEPT !.board = seed], scheduled |-> TRUE]

\* The flow part of tick (lines 575-581), r = Math.random() of the extend draw.
TickFlow(gs, dt, r) ==
    IF gs.isFlow
    THEN LET g1 == [gs EXCEPT !.flowTimeLeft = gs.flowTimeLeft - dt]
         IN  IF g1.flowTimeLeft <= 0
             THEN doFlowExtendDraw([g1 EXCEPT !.isFlow = FALSE], r)
             ELSE g1
    ELSE gs

\* What the extend draw of that part was: "none" (flow did not expire in this
\* tick), "won" (r < CONFIG.flow.extendProb) or "lost".
ExtendDraw(gs, dt, r) ==
    IF gs.isFlow /\ gs.flowTimeLeft - dt <= 0
    THEN (IF r < CONFIG.flow.extendProb THEN "won" ELSE "lost")
    ELSE "none"

\* tick(ts) up to the end-of-game test: the flow part, then the orb's update.
tick(gs, dt, pos, r) ==
    LET g1 == TickFlow(gs, dt, r)
    IN  IF g1.currentOrb # NoOrb THEN OrbUpdate(g1, dt, pos, BoardOf(g1))
        ELSE UpdateState(g1)

\* lines 628-640: the loop goes on unless the round is over
EndOfGame(gs) == gs.shotsLeft <= 0 /\ gs.currentOrb = NoOrb

-----------------------------------------------------------------------------
(* Inputs *)

\* dt = clamp((ts - lastTs)/1000, 0, 0.05), in milliseconds
DtSet == {0, 30, 50}

\* Math.random(), in percent
RandSamples == {0, 15, 99}

\* Where the integration may leave the orb: the launch point, a point in the
\* band of gate 1, one in the band of gate 2, one inside warp 1, a free
\* point, one inside a bottom portal of either layout, one below the
\* out-of-bounds line.
Positions ==
    {launchBase,
     [x |-> 260, y |-> 605],
     [x |-> 460, y |-> 800],
     [x |-> 150, y |-> 410],
     [x |-> 360, y |-> 1000],
     [x |-> 500, y |-> 1200],
     [x |-> 360, y |-> 1400]}

\* Swipes that pass the 10-unit threshold of the pointerup listener (line 506)
SwipeLengths == {10, 300}
SwipeDegs == {-130, 45}

\* Arguments of OC.spawn(angleDeg, power)
SpawnDegs == {30}
SpawnPowers == {0}

NoEvent ==
    [op |-> "init", hook |-> "none", gate |-> 0, kind |-> "none", threw |-> FALSE,
     accepted |-> FALSE, draw |-> "none", extend |-> "none", dt |-> 0, r |-> 0,
     reqDeg |-> 0, reqPower |-> 0, seed |-> <<0, 0>>,
     pos |-> [x |-> 0, y |-> 0], warped |-> FALSE]

\* sinceWarp after an operation other than a tick: kept while the current orb
\* is the same object, -1 once it is replaced or cleared.
KeepSinceWarp(gs) ==
    IF gs.currentOrb # NoOrb /\ gs.currentOrb = gameState.currentOrb
    THEN sinceWarp ELSE -1

-----------------------------------------------------------------------------
(* Actions *)

Init ==
    /\ \E high \in StoredHighScores, seed \in Seeds :
          /\ storage = high
          /\ gameState = startNewGame(InitialGameState(high, seed), seed).gs
    /\ rafPending = 1
    /\ restarts = 0
    /\ sinceWarp = -1
    /\ ev = NoEvent

\* One animation frame: a pending tick callback runs, with dt, the position
\* the integration leaves and the extend draw's Math.random() drawn from the
\* given sets.  An input the tick does not read is not enumerated.
TickWith(Dts, Poss, Rs) ==
    /\ rafPending > 0
    /\ \E dt \in Dts,
          pos \in (IF gameState.currentOrb = NoOrb THEN {launchBase} ELSE Poss),
          r \in (IF gameState.isFlow THEN Rs ELSE {0}) :
          \E s \in {tick(gameState, dt, pos, r)},
             w \in {gameState.currentOrb # NoOrb
                      /\ Teleported(gameState.currentOrb, dt, pos,
                                    BoardOf(gameState).warps)} :
              /\ gameState' = s.gs
              /\ sinceWarp' = IF gameState.currentOrb = NoOrb THEN -1
                              ELSE IF w THEN 0
                              ELSE IF sinceWarp < 0 THEN -1
                              ELSE Min(sinceWarp + dt, CONFIG.warp.cooldown)
              /\ rafPending' = IF s.threw \/ EndOfGame(s.gs)
                               THEN rafPending - 1 ELSE rafPending
              /\ ev' = [NoEvent EXCEPT !.op = "tick", !.hook = s.hook,
                           !.gate = s.gate, !.kind = s.kind, !.threw = s.threw,
                           !.extend = ExtendDraw(gameState, dt, r),
                           !.dt = dt, !.r = r, !.pos = pos, !.warped = w]
    /\ UNCHANGED <<storage, restarts>>

Tick == TickWith(DtSet, Positions, RandSamples)

\* The fire button (line 515) or the space key (line 512)
FireAuto ==
    /\ gameState' = doFireAuto(gameState)
    /\ ev' = [NoEvent EXCEPT !.op = "doFireAuto",
                 !.accepted = (gameState' # gameState)]
    /\ sinceWarp' = KeepSinceWarp(gameState')
    /\ UNCHANGED <<storage, rafPending, restarts>>

\* The end of a drag of at least 10 units (lines 494-508).  reqDeg is the
\* launch direction the swipe asks for (atan2 + 180 degrees), before clamping.
FireFromInput ==
    /\ \E len \in SwipeLengths, deg \in SwipeDegs :
          /\ gameState' = doFireFromInput(gameState, len, deg)
          /\ ev' = [NoEvent EXCEPT !.op = "doFireFromInput",
                       !.accepted = (gameState' # gameState),
                       !.reqDeg = deg + 180]
    /\ sinceWarp' = KeepSinceWarp(gameState')
    /\ UNCHANGED <<storage, rafPending, restarts>>

\* window.OC.spawn(angleDeg, power) (line 668)
OCSpawn ==
    /\ gameState.orbIndex < MaxOrbIndex
    /\ \E deg \in SpawnDegs, power \in SpawnPowers :
          /\ gameState' = spawnOrb(gameState, deg, power)
          /\ ev' = [NoEvent EXCEPT !.op = "OC.spawn", !.accepted = TRUE,
                       !.reqDeg = deg, !.reqPower = power]
    /\ sinceWarp' = KeepSinceWarp(gameState')
    /\ UNCHANGED <<storage, rafPending, restarts>>

\* window.OC.restart(s) (line 667)
OCRestart ==
    /\ restarts < MaxRestarts
    /\ \E seed \in RestartSeeds :
          \E n \in {startNewGame(gameState, seed)} :
              /\ gameState' = n.gs
              /\ rafPending' = IF n.scheduled THEN rafPending + 1 ELSE rafPending
              /\ ev' = [NoEvent EXCEPT !.op = "OC.restart", !.seed = seed,
                           !.threw = ~n.scheduled]
    /\ restarts' = restarts + 1
    /\ sinceWarp' = KeepSinceWarp(gameState')
    /\ UNCHANGED <<storage>>

Next ==
    \/ Tick
    \/ FireAuto
    \/ FireFromInput
    \/ OCSpawn
    \/ OCRestart

Spec == Init /\ [][Next]_vars

-----------------------------------------------------------------------------
(* The Board.prototype handlers applied to the session.  No board built by *)
(* the constructor reaches them through its hooks; they are reachable as   *)
(* functions (Object.getPrototypeOf(OC.gs.board).onPortalEntered(p), ...), *)
(* and HandlerSpec adds these calls to the operations of Spec.             *)

CallOnGatePassed ==
    /\ gameState.score < MaxGateScore
    /\ \E k \in DOMAIN BoardOf(gameState).gates :
          \E res \in {onGatePassed(gameState, storage)} :
              /\ gameState' = res.gs
              /\ storage' = res.storage
              /\ ev' = [NoEvent EXCEPT !.op = "onGatePassed", !.gate = k]
    /\ sinceWarp' = KeepSinceWarp(gameState')
    /\ UNCHANGED <<rafPending, restarts>>

CallOnPortalEntered ==
    /\ CONFIG.shotsPerGame - gameState.shotsLeft < MaxShotsEnded
    /\ \E k \in DOMAIN BoardOf(gameState).portals, r \in RandSamples,
          storeFails \in BOOLEAN :
          \E res \in {onPortalEntered(gameState, storage,
                                      BoardOf(gameState).portals[k], r, storeFails)} :
              /\ gameState' = res.gs
              /\ storage' = res.storage
              /\ ev' = [NoEvent EXCEPT !.op = "onPortalEntered",
                           !.kind = BoardOf(gameState).portals[k].kind,
                           !.draw = res.draw, !.threw = res.threw, !.r = r]
    /\ sinceWarp' = KeepSinceWarp(gameState')
    /\ UNCHANGED <<rafPending, restarts>>

CallOnMiss ==
    /\ CONFIG.shotsPerGame - gameState.shotsLeft < MaxShotsEnded
    /\ \E r \in RandSamples :
          \E res \in {onMiss(gameState, storage, r)} :
              /\ gameState' = res.gs
              /\ storage' = res.storage
              /\ ev' = [NoEvent EXCEPT !.op = "onMiss", !.draw = res.draw, !.r = r]
    /\ sinceWarp' = KeepSinceWarp(gameState')
    /\ UNCHANGED <<rafPending, restarts>>

\* The frames of HandlerSpec: the orb is left in the band of gate 1 or at
\* the free point.
HandlerDts == {30, 50}
HandlerPositions == {[x |-> 260, y |-> 605], [x |-> 360, y |-> 1000]}

HandlerTick == TickWith(HandlerDts, HandlerPositions, RandSamples)

HandlerNext ==
    \/ HandlerTick
    \/ FireAuto
    \/ FireFromInput
    \/ CallOnGatePassed
    \/ CallOnPortalEntered
    \/ CallOnMiss

HandlerSpec == Init /\ [][HandlerNext]_vars

-----------------------------------------------------------------------------
(* A long round: the terminal handlers of Board.prototype called one after  *)
(* the other (the first portal of the board, or a miss), every bonus draw   *)
(* lost and every high-score write succeeding.                              *)

HistoryPortalEntered ==
    /\ CONFIG.shotsPerGame - gameState.shotsLeft < MaxHistoryShots
    /\ \E res \in {onPortalEntered(gameState, storage,
                                    BoardOf(gameState).portals[1], 99, FALSE)} :
          /\ gameState' = res.gs
          /\ storage' = res.storage
          /\ ev' = [NoEvent EXCEPT !.op = "onPortalEntered",
                       !.kind = BoardOf(gameState).portals[1].kind,
                       !.draw = res.draw, !.threw = res.threw, !.r = 99]
    /\ sinceWarp' = KeepSinceWarp(gameState')
    /\ UNCHANGED <<rafPending, restarts>>

HistoryMiss ==
    /\ CONFIG.shotsPerGame - gameState.shotsLeft < MaxHistoryShots
    /\ \E res \in {onMiss(gameState, storage, 99)} :
          /\ gameState' = res.gs
          /\ storage' = res.storage
          /\ ev' = [NoEvent EXCEPT !.op = "onMiss", !.draw = res.draw, !.r = 99]
    /\ sinceWarp' = KeepSinceWarp(gameState')
    /\ UNCHANGED <<rafPending, restarts>>

HistoryNext ==
    \/ HistoryPortalEntered
    \/ HistoryMiss

HistorySpec == Init /\ [][HistoryNext]_vars

-----------------------------------------------------------------------------
(* Properties *)

Handlers == {"onGatePassed", "onPortalEntered", "onMiss"}
AngleRange == (-80)..(-20)

\* C1: whenever a tick's Orb.update calls a hook of the board, the session
\* handler of that event runs to completion: after a portal entry or a miss
\* currentOrb is null and shotsLeft is one lower than before the tick, and
\* after a first-time gate pass score has grown by CONFIG.scores.gate.
C1_HookRunsHandler ==
    [][ /\ (ev'.op = "tick" /\ ev'.hook \in {"portal", "miss"})
            => /\ ~ev'.threw
               /\ gameState'.currentOrb = NoOrb
               /\ gameState'.shotsLeft = gameState.shotsLeft - 1
        /\ (ev'.op = "tick" /\ ev'.hook = "gate")
            => /\ ~ev'.threw
               /\ gameState'.score = gameState.score + CONFIG.scores.gate ]_vars

\* C2: the driving loop has stopped (no tick callback is pending) only when
\* shotsLeft is 0 and no orb is in flight.
C2_LoopStopsOnlyAtRoundEnd ==
    rafPending = 0 => (gameState.shotsLeft = 0 /\ gameState.currentOrb = NoOrb)

\* C3: a doFireAuto or doFireFromInput request issued while an orb is in
\* flight or while shotsLeft <= 0 changes nothing: the session (currentOrb,
\* orbIndex, shotsLeft and every other field), the stored high score and the
\* pending callbacks are as before.
C3_FireRejected ==
    [][ (/\ ev'.op \in {"doFireAuto", "doFireFromInput"}
         /\ (gameState.currentOrb # NoOrb \/ gameState.shotsLeft <= 0))
        => (/\ gameState' = gameState
            /\ storage' = storage
            /\ rafPending' = rafPending) ]_vars

\* C3 witness: a fire request was refused while an orb was in flight.
C3_Witness ==
    /\ ev.op \in {"doFireAuto", "doFireFromInput"}
    /\ ~ev.accepted
    /\ gameState.currentOrb # NoOrb
    /\ gameState.shotsLeft > 0

\* C4 as claimed: a launch request with power 0 or with an aim angle outside
\* -80..-20 degrees, made when it would otherwise be accepted, creates no orb
\* and leaves shotsLeft unchanged.
C4_InvalidLaunchRejected ==
    [][ (/\ ev'.op \in {"doFireFromInput", "OC.spawn"}
         /\ gameState.currentOrb = NoOrb /\ gameState.shotsLeft > 0
         /\ (ev'.reqPower = 0 \/ ev'.reqDeg \notin AngleRange))
        => (/\ gameState'.currentOrb = NoOrb
            /\ gameState'.shotsLeft = gameState.shotsLeft) ]_vars

\* C4 as amended: no launch request is refused for its power or angle.
\* doFireFromInput, when no orb is in flight and shots remain, creates an orb
\* at the launch point whose angle is the requested one clamped into -80..-20
\* degrees and whose power lies in CONFIG.fire.min..CONFIG.fire.max;
\* OC.spawn creates an orb with exactly the angle and power given; neither
\* changes shotsLeft.
C4_LaunchClampedNotRejected ==
    [][ /\ (/\ ev'.op = "doFireFromInput"
            /\ gameState.currentOrb = NoOrb /\ gameState.shotsLeft > 0)
            => /\ gameState'.currentOrb # NoOrb
               /\ gameState'.currentOrb.pos = launchBase
               /\ gameState'.currentOrb.vel.angleDeg \in AngleRange
               /\ gameState'.currentOrb.vel.angleDeg
                    = Max(-80, Min(-20, ev'.reqDeg))
               /\ gameState'.currentOrb.vel.power >= CONFIG.fire.min
               /\ gameState'.currentOrb.vel.power <= CONFIG.fire.max
               /\ gameState'.shotsLeft = gameState.shotsLeft
        /\ (ev'.op = "OC.spawn")
            => /\ gameState'.currentOrb # NoOrb
               /\ gameState'.currentOrb.pos = launchBase
               /\ gameState'.currentOrb.vel.angleDeg = ev'.reqDeg
               /\ gameState'.currentOrb.vel.power = ev'.reqPower
               /\ gameState'.shotsLeft = gameState.shotsLeft ]_vars

\* C4 witness: a swipe asking for an angle outside the range launched an orb,
\* at -20 degrees.
C4_Witness ==
    /\ ev.op = "doFireFromInput"
    /\ ev.accepted
    /\ ev.reqDeg \notin AngleRange
    /\ gameState.currentOrb # NoOrb
    /\ gameState.currentOrb.vel.angleDeg = -20

\* C5: over the ticks of one orb each gate id triggers the gate-passed event
\* at most once: the event is raised for a gate only when the orb's triggered
\* set does not hold the gate yet, the gate is in the set afterwards, and the
\* set of one orb only grows (a new orb starts with the empty set).
C5_GateOncePerOrb ==
    [][ /\ (ev'.op = "tick" /\ ev'.hook = "gate")
            => /\ gameState.currentOrb # NoOrb
               /\ ev'.gate \notin gameState.currentOrb.gatePassed
               /\ ev'.gate \in gameState'.currentOrb.gatePassed
        /\ (/\ gameState.currentOrb # NoOrb
            /\ gameState'.currentOrb # NoOrb
            /\ gameState'.currentOrb.id = gameState.currentOrb.id)
            => gameState.currentOrb.gatePassed
                 \subseteq gameState'.currentOrb.gatePassed
        /\ (/\ gameState'.currentOrb # NoOrb
            /\ (gameState.currentOrb = NoOrb
                 \/ gameState'.currentOrb.id # gameState.currentOrb.id))
            => gameState'.currentOrb.gatePassed = {} ]_vars

\* C5 witness: a tick left the orb inside the band of a gate it had already
\* triggered, and raised no event.
C5_Witness ==
    /\ ev.op = "tick"
    /\ ev.hook = "none"
    /\ gameState.currentOrb # NoOrb
    /\ \E k \in DOMAIN BoardOf(gameState).gates :
          /\ GateCheckPass(BoardOf(gameState).gates[k], gameState.currentOrb)
          /\ BoardOf(gameState).gates[k].id \in gameState.currentOrb.gatePassed

\* C6: in every reachable state, after any sequence of gate, portal, miss
\* and tick events, energy lies in [0,100] (0..1000 tenths).
C6_EnergyInRange ==
    gameState.energy >= 0 /\ gameState.energy <= 1000

\* C6 witness: two gate-passed events from the start of a round, the second
\* of which would have taken energy past 100: it stands at exactly 100.
C6_Witness ==
    /\ ev.op = "onGatePassed"
    /\ gameState.recentShots = << >>
    /\ gameState.score = 2 * CONFIG.scores.gate
    /\ 2 * 10 * CONFIG.scores.energy.gate > 1000
    /\ gameState.energy = 1000

\* C7: once a gate-passed, portal-entered or miss event has been handled,
\* energy is strictly below 100; and a bonus draw made while handling the
\* event goes with energy reset to 0.
C7_EnergyCheckedAfterEveryEvent ==
    (ev.op \in Handlers /\ ~ev.threw)
        => /\ gameState.energy < 1000
           /\ (ev.draw # "none" => gameState.energy = 0)

\* C8: when the portal-entered handler runs for a portal of kind k, score
\* grows by exactly round(portalScore(k) * m), m being
\* CONFIG.flow.scoreMultiplier if flow is active at that moment and 1
\* otherwise (the growth d is the integer with d - 1/2 <= base*m < d + 1/2);
\* the handler also clears currentOrb and lowers shotsLeft by exactly one.
C8_PortalScore ==
    [][ (ev'.op = "onPortalEntered")
        => LET m10 == IF gameState.isFlow THEN CONFIG.flow.scoreMultiplier ELSE 10
               base == portalScore(ev'.kind)
               d == gameState'.score - gameState.score
           IN  /\ 20 * d - 10 <= 2 * base * m10
               /\ 2 * base * m10 < 20 * d + 10
               /\ gameState'.currentOrb = NoOrb
               /\ gameState'.shotsLeft = gameState.shotsLeft - 1 ]_vars

\* C8 witness: the handler ran for a blue portal while flow was active (no
\* draw in this call, flow on afterwards), where base * 1.5 = 157.5 is
\* rounded.
C8_Witness ==
    /\ ev.op = "onPortalEntered"
    /\ ev.kind = "blue"
    /\ ev.draw = "none"
    /\ gameState.isFlow
    /\ (CONFIG.scores.portals.blue * CONFIG.flow.scoreMultiplier) % 10 = 5

\* C9: when a tick brings flowTimeLeft to <= 0 and the extend draw succeeds,
\* flow is active again after that tick with time left; when the draw fails
\* flow is inactive.
C9_FlowReactivatedByExtend ==
    /\ (ev.op = "tick" /\ ev.extend = "won")
          => (gameState.isFlow /\ gameState.flowTimeLeft > 0)
    /\ (ev.op = "tick" /\ ev.extend = "lost") => ~gameState.isFlow

\* C10: after any session event (gate passed, portal entered, miss) has been
\* handled, highScore >= score.
C10_HighScoreAtLeastScore ==
    (ev.op \in Handlers /\ ~ev.threw) => gameState.highScore >= gameState.score

\* C11: a failure of localStorage.setItem during the portal-entered handler
\* does not stop the handler: it returns normally, with the energy-threshold
\* check run (energy below 100 afterwards), currentOrb cleared and shotsLeft
\* decremented.
C11_StoreFailureIgnored ==
    [][ (ev'.op = "onPortalEntered")
        => /\ ~ev'.threw
           /\ gameState'.energy < 1000
           /\ gameState'.currentOrb = NoOrb
           /\ gameState'.shotsLeft = gameState.shotsLeft - 1 ]_vars

\* C12: startNewGame, called from any reachable state, leaves the session at
\* score 0, shotsLeft = CONFIG.shotsPerGame, energy 0, combo 0, flow inactive
\* with flowTimeLeft 0, no current orb, empty recentShots and the board
\* generated from the given seed, with launches accepted; highScore is
\* carried over.
C12_RestartResetsSession ==
    [][ (ev'.op = "OC.restart")
        => /\ gameState'.score = 0
           /\ gameState'.shotsLeft = CONFIG.shotsPerGame
           /\ gameState'.energy = 0
           /\ gameState'.combo = 0
           /\ ~gameState'.isFlow
           /\ gameState'.flowTimeLeft = 0
           /\ gameState'.currentOrb = NoOrb
           /\ gameState'.recentShots = << >>
           /\ gameState'.orbIndex = 0
           /\ gameState'.rngSeed = ev'.seed
           /\ gameState'.board = ev'.seed
           /\ BoardOf(gameState').seed = ev'.seed
           /\ ~BoardOf(gameState').threw
           /\ gameState'.highScore = gameState.highScore
           /\ doFireAuto(gameState') # gameState' ]_vars

\* C16: at any time at most one tick callback is pending.
C16_OneTickPending ==
    rafPending <= 1

\* C17: the portal-entered handler reads the finishing orb's triggered-gate
\* set before clearing the current orb: combo becomes combo+1 if the current
\* orb had triggered at least one gate, and exactly 1 otherwise.
C17_ComboFromGates ==
    [][ (ev'.op = "onPortalEntered")
        => gameState'.combo =
              IF gameState.currentOrb # NoOrb
                 /\ gameState.currentOrb.gatePassed # {}
              THEN gameState.combo + 1 ELSE 1 ]_vars

\* C17 witness: the handler ran for an orb that had triggered a gate and took
\* combo from 1 to 2.
C17_Witness ==
    /\ ev.op = "onPortalEntered"
    /\ gameState.combo = 2

\* C18: when the miss handler runs, energy becomes
\* clamp(energy + CONFIG.scores.energy.onMiss, 0, 100) and the threshold check
\* runs on it (a draw and a reset to 0 exactly when it reached 100), the entry
\* {kind null, missed true} is appended to recentShots (the oldest dropped
\* beyond 10), combo becomes 0, currentOrb null, shotsLeft one lower; score,
\* highScore and the stored high score are unchanged.
C18_MissEffects ==
    [][ (ev'.op = "onMiss")
        => LET e1 == Max(0, Min(1000, gameState.energy
                                        + 10 * CONFIG.scores.energy.onMiss))
               old == gameState.recentShots
               new == gameState'.recentShots
           IN  /\ gameState'.energy = (IF e1 >= 1000 THEN 0 ELSE e1)
               /\ (ev'.draw # "none") <=> (e1 >= 1000)
               /\ Len(new) = Min(10, Len(old) + 1)
               /\ new[Len(new)] = [portalKind |-> "null", missed |-> TRUE]
               /\ \A i \in 1..(Len(new) - 1) :
                     new[i] = old[Len(old) - (Len(new) - 1) + i]
               /\ gameState'.combo = 0
               /\ gameState'.currentOrb = NoOrb
               /\ gameState'.shotsLeft = gameState.shotsLeft - 1
               /\ gameState'.score = gameState.score
               /\ gameState'.highScore = gameState.highScore
               /\ storage' = storage ]_vars

\* C18 witness: the miss handler ran with energy reaching 100 and made the
\* bonus draw.
C18_Witness ==
    /\ ev.op = "onMiss"
    /\ ev.draw # "none"
    /\ gameState.energy = 0
    /\ gameState.combo = 0

\* C19: the gate-passed handler adds CONFIG.scores.gate to score, whether
\* flow is active or not, and the gate energy constant to energy (clamped to
\* [0,100]), and leaves combo, recentShots, shotsLeft, currentOrb, isFlow and
\* flowTimeLeft unchanged.
C19_GateEffects ==
    [][ (ev'.op = "onGatePassed")
        => /\ gameState'.score = gameState.score + CONFIG.scores.gate
           /\ gameState'.energy =
                 Max(0, Min(1000, gameState.energy
                                    + 10 * CONFIG.scores.energy.gate))
           /\ gameState'.combo = gameState.combo
           /\ gameState'.recentShots = gameState.recentShots
           /\ gameState'.shotsLeft = gameState.shotsLeft
           /\ gameState'.currentOrb = gameState.currentOrb
           /\ gameState'.isFlow = gameState.isFlow
           /\ gameState'.flowTimeLeft = gameState.flowTimeLeft ]_vars

\* C19 witness: the gate-passed handler ran while flow was active.
C19_Witness ==
    /\ ev.op = "onGatePassed"
    /\ gameState.isFlow

\* C20: recentShots never holds more than 10 entries; each terminal event
\* (portal or miss) appends its result at the end, in the order of
\* occurrence, and drops the oldest entry when that makes an 11th; no other
\* event but the start of a round changes recentShots.
C20_RecentShotsBounded ==
    [][ /\ Len(gameState'.recentShots) <= 10
        /\ (ev'.op \in {"onPortalEntered", "onMiss"})
            => LET e == IF ev'.op = "onMiss"
                        THEN [portalKind |-> "null", missed |-> TRUE]
                        ELSE [portalKind |-> ev'.kind, missed |-> FALSE]
                   all == gameState.recentShots \o <<e>>
               IN  gameState'.recentShots =
                      IF Len(all) > 10 THEN SubSeq(all, 2, Len(all)) ELSE all
        /\ (ev'.op \notin {"onPortalEntered", "onMiss", "OC.restart"})
            => gameState'.recentShots = gameState.recentShots ]_vars

\* C20 witness: an 11th terminal result was recorded and recentShots holds
\* the last 10.
C20_Witness ==
    /\ ev.op \in {"onPortalEntered", "onMiss"}
    /\ CONFIG.shotsPerGame - gameState.shotsLeft = 11
    /\ Len(gameState.recentShots) = 10

\* C13: no Orb.update raises both a portal-entered and a miss event: after
\* a tick that raised the portal event the orb is not beyond the
\* out-of-bounds line, and after a tick that raised the miss event no portal
\* of the board contains the orb (the portal check comes first).
C13_PortalExcludesMiss ==
    LET orb == gameState.currentOrb
        inPortal == \E k \in DOMAIN BoardOf(gameState).portals :
                       PortalContains(BoardOf(gameState).portals[k], orb.pos)
        beyond == orb.pos.y - orb.radius > VIRTUAL_H + 100
    IN  (ev.op = "tick" /\ orb # NoOrb)
            => /\ ~(inPortal /\ beyond)
               /\ (ev.hook = "portal" => (inPortal /\ ~beyond))
               /\ (ev.hook = "miss" => (beyond /\ ~inPortal))

\* C13 witness: a tick raised the portal-entered event.
C13_Witness ==
    /\ ev.op = "tick"
    /\ ev.hook = "portal"
    /\ gameState.currentOrb # NoOrb
    /\ ~gameState.currentOrb.alive

\* C14: a tick teleports the orb only if the orb was never teleported before
\* or the simulated time of the ticks since its last teleport, this tick
\* included, has reached CONFIG.warp.cooldown; and a teleporting tick moves
\* the orb once, to the partner of the first warp (registration order) that
\* contains it.
C14_WarpCooldown ==
    [][ (ev'.op = "tick" /\ ev'.warped)
        => LET ws == BoardOf(gameState).warps
               K == {k \in DOMAIN ws : WarpContains(ws[k], ev'.pos)}
           IN  /\ (sinceWarp < 0 \/ sinceWarp + ev'.dt >= CONFIG.warp.cooldown)
               /\ K # {}
               /\ \E k \in K :
                     /\ \A j \in K : k <= j
                     /\ gameState'.currentOrb.pos =
                           [x |-> ws[ws[k].partner].x, y |-> ws[ws[k].partner].y] ]_vars

\* C14 witness: a tick left the orb inside a warp circle before the cooldown
\* of its last teleport had elapsed, and did not teleport it.
C14_Witness ==
    /\ ev.op = "tick"
    /\ ~ev.warped
    /\ sinceWarp > 0
    /\ sinceWarp < CONFIG.warp.cooldown
    /\ gameState.currentOrb # NoOrb
    /\ \E k \in DOMAIN BoardOf(gameState).warps :
          WarpContains(BoardOf(gameState).warps[k], gameState.currentOrb.pos)

\* C21: each launched orb produces at most one terminal event: a tick raises
\* a portal-entered or miss event only for an orb that was still alive, the
\* event lowers shotsLeft by exactly one, and shotsLeft stays within
\* 0..CONFIG.shotsPerGame.
C21_OneTerminalEventPerOrb ==
    [][ /\ (ev'.op = "tick" /\ ev'.hook \in {"portal", "miss"})
            => /\ gameState.currentOrb.alive
               /\ gameState'.shotsLeft = gameState.shotsLeft - 1
        /\ gameState'.shotsLeft >= 0
        /\ gameState'.shotsLeft <= CONFIG.shotsPerGame ]_vars

\* C22: for every seed a board is built from, the generator's first value is
\* below 1 (its word is not 0xFFFFFFFF), the preset index selected is in
\* 0..presets.length-1, the construction does not raise, and every portal's
\* kind is one of blue, purple, gold.
C22_RandBelowOne ==
    [][ (ev'.op = "OC.restart")
        => LET b == BoardTable[ev'.seed]
           IN  /\ randStep(ev'.seed) # <<65535, 65535>>
               /\ b.pidx >= 0
               /\ b.pidx <= Len(CONFIG.board.presets) - 1
               /\ ~b.threw
               /\ ~ev'.threw
               /\ \A k \in DOMAIN b.portals :
                     b.portals[k].kind \in {"blue", "purple", "gold"} ]_vars

\* C23: the launch point lies outside every portal of the board: an orb that
\* a fire request has just created is inside no portal.
C23_LaunchPointOutsidePortals ==
    (/\ ev.op \in {"doFireAuto", "doFireFromInput"}
     /\ ev.accepted
     /\ gameState.currentOrb # NoOrb)
        => /\ gameState.currentOrb.pos = launchBase
           /\ \A k \in DOMAIN BoardOf(gameState).portals :
                 ~PortalContains(BoardOf(gameState).portals[k],
                                 gameState.currentOrb.pos)

=============================================================================
